---- MODULE Spec2Model ----
(***************************************************************************)
(* todo-cli: the task store of src/src/api.rs (ToDoList::new, run, Drop),  *)
(* its serde_json encoding, and the two command interpreters               *)
(* (src/src/cli.rs parse, src/src/main.rs cli::parse and main).            *)
(*                                                                         *)
(* A text (a Rust String) is a sequence of one-character strings, so that  *)
(* the JSON encoder and decoder work on characters.  An Option<T> is a     *)
(* sequence of length 0 (None) or 1 (Some).                                *)
(***************************************************************************)
EXTENDS Integers, Sequences, FiniteSets

VARIABLES owner, pc, store, file, writes, last, adds, stdout, args, parsed

vars == <<owner, pc, store, file, writes, last, adds, stdout, args, parsed>>

storeVars == <<owner, pc, store, file, writes, last, adds, stdout>>

cliVars == <<args, parsed>>

(***************************************************************************)
(* Bounds and input sets.                                                  *)
(***************************************************************************)
\* The longest task list the model lets Add build.
MaxTasks == 3

\* Task texts: the empty text, and one holding a plain character and the
\* two characters JSON must escape.
Texts == { <<>>, <<"a", "\"", "\\">> }

\* Owner names handed to ToDoList::new: a plain one, and one to escape.
Names == { <<"H", "i">>, <<"\\">> }

\* Index arguments of Remove and Modify (usize): 0, the valid ones, one past.
Indices == 0 .. (MaxTasks + 1)

None == <<>>

Some(x) == <<x>>

(***************************************************************************)
(* Instruction (api.rs 60-66).                                             *)
(***************************************************************************)
Add(t) == [kind |-> "Add", index |-> 0, text |-> t]

Remove(i) == [kind |-> "Remove", index |-> i, text |-> <<>>]

Modify(i, t) == [kind |-> "Modify", index |-> i, text |-> t]

PrintInst == [kind |-> "Print", index |-> 0, text |-> <<>>]

Instruction ==
    {Add(t) : t \in Texts} \cup {Remove(i) : i \in Indices}
        \cup {Modify(i, t) : i \in Indices, t \in Texts} \cup {PrintInst}

(***************************************************************************)
(* serde_json::to_string_pretty of the derived Serialize (api.rs 11-18,    *)
(* 55): an object with the fields in declaration order, two-space indent,  *)
(* an empty array as [].                                                   *)
(***************************************************************************)
Q == "\""

BS == "\\"

NL == "\n"

KeyTasks == <<"t", "a", "s", "k", "s">>

KeyName == <<"n", "a", "m", "e">>

\* The escape of one character inside a JSON string.
EscapeCharRaw(c) == <<c>>

EscapeChar(c) ==
    IF c = Q THEN <<BS, Q>>
    ELSE IF c = BS THEN <<BS, BS>>
    ELSE IF c = NL THEN <<BS, "n">>
    ELSE <<c>>

RECURSIVE Escape(_)
Escape(t) == IF t = <<>> THEN <<>> ELSE EscapeChar(Head(t)) \o Escape(Tail(t))

JsonString(t) == <<Q>> \o Escape(t) \o <<Q>>

Indent(n) == [k \in 1 .. n |-> " "]

RECURSIVE JsonItems(_)
JsonItems(v) ==
    IF Len(v) = 1 THEN Indent(4) \o JsonString(v[1])
    ELSE Indent(4) \o JsonString(Head(v)) \o <<",", NL>> \o JsonItems(Tail(v))

JsonArray(v) ==
    IF v = <<>> THEN <<"[", "]">>
    ELSE <<"[", NL>> \o JsonItems(v) \o <<NL>> \o Indent(2) \o <<"]">>

to_string_pretty(s) ==
    <<"{", NL>>
        \o Indent(2) \o JsonString(KeyTasks) \o <<":", " ">> \o JsonArray(s.tasks)
        \o <<",", NL>>
        \o Indent(2) \o JsonString(KeyName) \o <<":", " ">> \o JsonString(s.name)
        \o <<NL, "}">>

(***************************************************************************)
(* serde_json::from_str of the derived Deserialize (api.rs 11): a          *)
(* recursive-descent reader.  A reader returns [ok, pos, val]: whether it  *)
(* succeeded, the position after what it read, and the value.              *)
(***************************************************************************)
Fail == [ok |-> FALSE, pos |-> 0, val |-> <<>>]

IsWs(c) == c \in {" ", NL, "\t", "\r"}

At(s, p) == IF p <= Len(s) THEN s[p] ELSE "EOF"

RECURSIVE SkipWs(_, _)
SkipWs(s, p) == IF p <= Len(s) /\ IsWs(s[p]) THEN SkipWs(s, p + 1) ELSE p

\* The characters of a string after its opening quote, up to the closing one.
RECURSIVE ReadChars(_, _, _)
ReadChars(s, p, acc) ==
    IF p > Len(s) THEN Fail
    ELSE IF s[p] = Q THEN [ok |-> TRUE, pos |-> p + 1, val |-> acc]
    ELSE IF s[p] = BS
         THEN IF p + 1 > Len(s) THEN Fail
              ELSE IF s[p + 1] \in {Q, BS, "/"}
                   THEN ReadChars(s, p + 2, Append(acc, s[p + 1]))
              ELSE IF s[p + 1] = "n" THEN ReadChars(s, p + 2, Append(acc, NL))
              ELSE IF s[p + 1] = "t" THEN ReadChars(s, p + 2, Append(acc, "\t"))
              ELSE IF s[p + 1] = "r" THEN ReadChars(s, p + 2, Append(acc, "\r"))
              ELSE Fail
    ELSE IF s[p] \in {NL, "\t", "\r"} THEN Fail
    ELSE ReadChars(s, p + 1, Append(acc, s[p]))

ReadString(s, p) == IF At(s, p) = Q THEN ReadChars(s, p + 1, <<>>) ELSE Fail

\* The elements of an array after its first one: "," element ... "]".
RECURSIVE ReadMore(_, _, _)
ReadMore(s, p, acc) ==
    LET q == SkipWs(s, p) IN
    IF At(s, q) = "]" THEN [ok |-> TRUE, pos |-> q + 1, val |-> acc]
    ELSE IF At(s, q) = ","
         THEN LET e == ReadString(s, SkipWs(s, q + 1)) IN
              IF e.ok THEN ReadMore(s, e.pos, Append(acc, e.val)) ELSE Fail
    ELSE Fail

ReadArray(s, p) ==
    IF At(s, p) # "[" THEN Fail
    ELSE LET q == SkipWs(s, p + 1) IN
         IF At(s, q) = "]" THEN [ok |-> TRUE, pos |-> q + 1, val |-> <<>>]
         ELSE LET e == ReadString(s, q) IN
              IF e.ok THEN ReadMore(s, e.pos, <<e.val>>) ELSE Fail

\* The fields of the object: got.tasks and got.name are Options, filled as
\* the fields are met.  A field met twice, or one the struct does not have,
\* is refused here.
RECURSIVE ReadFields(_, _, _)
ReadFields(s, p, got) ==
    LET k == ReadString(s, SkipWs(s, p)) IN
    IF ~k.ok THEN Fail
    ELSE LET c == SkipWs(s, k.pos) IN
         IF At(s, c) # ":" THEN Fail
         ELSE LET v == SkipWs(s, c + 1)
                  r == IF k.val = KeyTasks /\ got.tasks = None THEN ReadArray(s, v)
                       ELSE IF k.val = KeyName /\ got.name = None THEN ReadString(s, v)
                       ELSE Fail
                  g == IF k.val = KeyTasks THEN [got EXCEPT !.tasks = Some(r.val)]
                       ELSE [got EXCEPT !.name = Some(r.val)]
              IN IF ~r.ok THEN Fail
                 ELSE LET e == SkipWs(s, r.pos) IN
                      IF At(s, e) = "," THEN ReadFields(s, e + 1, g)
                      ELSE IF At(s, e) = "}"
                           THEN [ok |-> TRUE, pos |-> e + 1, val |-> g]
                      ELSE Fail

\* Result<ToDoList<String>, Error>: [ok, val] with val the store read.
from_str(s) ==
    LET p == SkipWs(s, 1) IN
    IF At(s, p) # "{" THEN [ok |-> FALSE, val |-> <<>>]
    ELSE LET r == ReadFields(s, p + 1, [tasks |-> None, name |-> None]) IN
         IF r.ok /\ r.val.tasks # None /\ r.val.name # None
                 /\ SkipWs(s, r.pos) = Len(s) + 1
         THEN [ok |-> TRUE,
               val |-> [tasks |-> r.val.tasks[1], name |-> r.val.name[1]]]
         ELSE [ok |-> FALSE, val |-> <<>>]

(***************************************************************************)
(* ToDoList<String> (api.rs 11-18): the store record.                      *)
(***************************************************************************)
ToDoList_new(name) == [tasks |-> <<>>, name |-> name]

\* `i - 1` on usize (api.rs 31, 33).  For i = 0 a build with overflow checks
\* panics and one without wraps to usize::MAX; `wrapped` stands for that
\* value, which no Vec length reaches.
Sub1(i, overflow_checks) ==
    IF i > 0 THEN [panic |-> FALSE, wrapped |-> FALSE, n |-> i - 1]
    ELSE IF overflow_checks THEN [panic |-> TRUE, wrapped |-> FALSE, n |-> 0]
    ELSE [panic |-> FALSE, wrapped |-> TRUE, n |-> 0]

\* The bounds check of Vec's IndexMut and of Vec::remove, on a 0-based index.
InBounds(v, idx) == ~idx.wrapped /\ idx.n < Len(v)

\* Vec::push (api.rs 30).
VecPushFront(v, t) == <<t>> \o v

VecPush(v, t) == Append(v, t)

\* self.tasks[k] = t, k 0-based and in bounds (api.rs 31).
VecSetNext(v, k, t) ==
    IF k + 2 <= Len(v) THEN [v EXCEPT ![k + 2] = t] ELSE [v EXCEPT ![1] = t]

VecSet(v, k, t) == [v EXCEPT ![k + 1] = t]

\* Vec::remove(k), k 0-based and in bounds: the later elements shift left
\* (api.rs 33).
VecRemoveEqual(v, k) == SelectSeq(v, LAMBDA x : x # v[k + 1])

VecRemoveLast(v, k) == SubSeq(v, 1, Len(v) - 1)

VecRemove(v, k) == SubSeq(v, 1, k) \o SubSeq(v, k + 2, Len(v))

\* The rows Print adds to the table: (i + 1, task) for each enumerated task
\* (api.rs 39-41).
PrintRows(v) == [k \in 1 .. Len(v) |-> [index |-> (k - 1) + 1, task |-> v[k]]]

\* What Print writes (api.rs 36-47): the table under the owner's heading, or
\* the "No tasks to print" line.
PrintOutput(s) ==
    IF s.tasks # <<>>
    THEN [kind |-> "table", name |-> s.name, rows |-> PrintRows(s.tasks)]
    ELSE [kind |-> "no tasks", name |-> s.name, rows |-> <<>>]

\* run returns (): it has no error value, so err is None on every path.
Returned(s) == [panic |-> FALSE, err |-> None, msg |-> "", store |-> s]

Panicked(s, m) == [panic |-> TRUE, err |-> None, msg |-> m, store |-> s]

\* ToDoList::run (api.rs 28-50) on store s: the store afterwards, or a panic
\* that leaves it as it was.
run(s, inst, overflow_checks) ==
    LET idx == Sub1(inst.index, overflow_checks) IN
    CASE inst.kind = "Add" ->
            Returned([s EXCEPT !.tasks = VecPush(s.tasks, inst.text)])
      [] inst.kind = "Modify" ->
            IF idx.panic THEN Panicked(s, "attempt to subtract with overflow")
            ELSE IF ~InBounds(s.tasks, idx) THEN Panicked(s, "index out of bounds")
            ELSE Returned([s EXCEPT !.tasks = VecSet(s.tasks, idx.n, inst.text)])
      [] inst.kind = "Remove" ->
            IF idx.panic THEN Panicked(s, "attempt to subtract with overflow")
            ELSE IF ~InBounds(s.tasks, idx)
                 THEN Panicked(s, "removal index out of bounds")
            ELSE Returned([s EXCEPT !.tasks = VecRemove(s.tasks, idx.n)])
      [] inst.kind = "Print" -> Returned(s)

(***************************************************************************)
(* The command line.  A command line is [cmd, num, new]: the first token   *)
(* (the subcommand, the --print flag, or "" for none) and the values given *)
(* for the arguments NUM and NEW, each an Option.                          *)
(***************************************************************************)
\* Index tokens: numbers, a signed one, a word, a negative number, nothing.
IndexTokens ==
    { <<"0">>, <<"1">>, <<"2">>, <<"1", "0">>, <<"+", "1">>,
      <<"d", "o", "g">>, <<"-", "1">>, <<>> }

Option(S) == {None} \cup {Some(x) : x \in S}

CommandLines ==
    [cmd : {"", "print", "--print", "add", "rm", "modify"},
     num : Option(IndexTokens), new : Option(Texts)]

\* The command lines main is started with: one per path of cli::parse.
MainLines ==
    { [cmd |-> "", num |-> None, new |-> None],
      [cmd |-> "--print", num |-> None, new |-> None],
      [cmd |-> "print", num |-> None, new |-> None],
      [cmd |-> "add", num |-> None, new |-> Some(<<"a">>)],
      [cmd |-> "rm", num |-> Some(<<"1">>), new |-> None],
      [cmd |-> "rm", num |-> Some(<<"d", "o", "g">>), new |-> None],
      [cmd |-> "modify", num |-> Some(<<"1">>), new |-> Some(<<"a">>)],
      [cmd |-> "modify", num |-> Some(<<"d", "o", "g">>), new |-> Some(<<"a">>)] }

Digits == {"0", "1", "2", "3", "4", "5", "6", "7", "8", "9"}

DigitValue(c) ==
    CASE c = "0" -> 0 [] c = "1" -> 1 [] c = "2" -> 2 [] c = "3" -> 3
      [] c = "4" -> 4 [] c = "5" -> 5 [] c = "6" -> 6 [] c = "7" -> 7
      [] c = "8" -> 8 [] c = "9" -> 9

RECURSIVE DecimalValue(_, _)
DecimalValue(ds, acc) ==
    IF ds = <<>> THEN acc
    ELSE DecimalValue(Tail(ds), acc * 10 + DigitValue(Head(ds)))

\* str::parse::<usize> (cli.rs 39, 48; main.rs 54, 64): an optional "+",
\* then one or more digits; anything else is a ParseIntError.  The tokens of
\* the model stay far below usize::MAX, so the overflow error is not met.
parse_usize(tok) ==
    LET ds == IF tok # <<>> /\ Head(tok) = "+" THEN Tail(tok) ELSE tok IN
    IF ds # <<>> /\ \A k \in 1 .. Len(ds) : ds[k] \in Digits
    THEN [ok |-> TRUE, n |-> DecimalValue(ds, 0)]
    ELSE [ok |-> FALSE, n |-> 0]

\* clap reads a value that starts with "-" (and is longer than "-") as a
\* flag, and no subcommand defines such a flag.
LooksLikeFlag(opt) == opt # None /\ Len(opt[1]) > 1 /\ Head(opt[1]) = "-"

ClapExit == [exit |-> TRUE, sub |-> "", flags |-> {}, values |-> <<>>]

Matches(sub, flags, values) ==
    [exit |-> FALSE, sub |-> sub, flags |-> flags, values |-> values]

\* What clap's get_matches does with the arguments of the subcommands add,
\* rm and modify, which both interpreters define alike (cli.rs 14-26,
\* main.rs 34-46): every defined argument is required, no other is accepted.
SubcommandMatches(cl) ==
    CASE cl.cmd = "add" ->
            IF cl.new # None /\ cl.num = None
            THEN Matches("add", {}, [a \in {"NEW"} |-> cl.new[1]]) ELSE ClapExit
      [] cl.cmd = "rm" ->
            IF cl.num # None /\ cl.new = None
            THEN Matches("rm", {}, [a \in {"NUM"} |-> cl.num[1]]) ELSE ClapExit
      [] cl.cmd = "modify" ->
            IF cl.num # None /\ cl.new # None
            THEN Matches("modify", {},
                         [a \in {"NUM", "NEW"} |->
                             IF a = "NUM" THEN cl.num[1] ELSE cl.new[1]])
            ELSE ClapExit

\* get_matches of the cli.rs app (cli.rs 8-28): print is a subcommand
\* without arguments.  A usage error makes clap print it and exit.
get_matches(cl) ==
    IF LooksLikeFlag(cl.num) \/ LooksLikeFlag(cl.new) THEN ClapExit
    ELSE CASE cl.cmd = "" ->
                IF cl.num = None /\ cl.new = None
                THEN Matches("", {}, <<>>) ELSE ClapExit
           [] cl.cmd = "print" ->
                IF cl.num = None /\ cl.new = None
                THEN Matches("print", {}, <<>>) ELSE ClapExit
           [] cl.cmd \in {"add", "rm", "modify"} -> SubcommandMatches(cl)
           [] OTHER -> ClapExit

\* get_matches of the main.rs app (main.rs 29-48): print is the flag
\* -p/--print and no subcommand.
main_get_matches(cl) ==
    IF LooksLikeFlag(cl.num) \/ LooksLikeFlag(cl.new) THEN ClapExit
    ELSE CASE cl.cmd = "" ->
                IF cl.num = None /\ cl.new = None
                THEN Matches("", {}, <<>>) ELSE ClapExit
           [] cl.cmd = "--print" ->
                IF cl.num = None /\ cl.new = None
                THEN Matches("", {"print"}, <<>>) ELSE ClapExit
           [] cl.cmd \in {"add", "rm", "modify"} -> SubcommandMatches(cl)
           [] OTHER -> ClapExit

\* ArgMatches::value_of: the value of a matched argument, None for a name
\* that is not among them (a flag holds no value).
value_of(m, name) ==
    IF name \in DOMAIN m.values THEN Some(m.values[name]) ELSE None

\* ArgMatches::is_present: a matched argument or the matched subcommand.
is_present(m, name) ==
    m.sub = name \/ name \in DOMAIN m.values \/ name \in m.flags

\* The outcomes of an interpreter.
Ok(inst) == [kind |-> "Ok", inst |-> Some(inst), msg |-> ""]

Err(m) == [kind |-> "Err", inst |-> None, msg |-> m]

NoInstruction == [kind |-> "None", inst |-> None, msg |-> ""]

Unit == [kind |-> "Unit", inst |-> None, msg |-> ""]

Panic(m) == [kind |-> "Panic", inst |-> None, msg |-> m]

Exited == [kind |-> "ClapExit", inst |-> None, msg |-> "usage"]

\* cli::parse of cli.rs (7-59).
parse_rm(m) ==
    LET v == value_of(m, "NEW") IN
    IF v = None THEN Panic("Need task to add")
    ELSE LET n == parse_usize(v[1]) IN
         IF n.ok THEN Ok(Remove(n.n)) ELSE Err("ParseIntError")

parse_modify(m) ==
    LET v == value_of(m, "NUM") IN
    IF v = None THEN Panic("Need index of task to modify")
    ELSE LET n == parse_usize(v[1]) IN
         IF ~n.ok THEN Err("ParseIntError")
         ELSE LET t == value_of(m, "NEW") IN
              IF t = None THEN Panic("Need task to modify to")
              ELSE Ok(Modify(n.n, t[1]))

parse(cl) ==
    LET m == get_matches(cl) IN
    IF m.exit THEN Exited
    ELSE IF m.sub = "add"
         THEN LET t == value_of(m, "NEW") IN
              IF t = None THEN Panic("Need task to add") ELSE Ok(Add(t[1]))
    ELSE IF m.sub = "rm" THEN parse_rm(m)
    ELSE IF m.sub = "modify" THEN parse_modify(m)
    ELSE IF is_present(m, "print") THEN Ok(PrintInst)
    ELSE Err("Command-line arguments could not be parsed")

\* cli::parse of main.rs (28-72).  In the rm branch the statement
\* `Some(Instruction::Remove(n));` builds the instruction and discards it,
\* so the branch yields the unit value and no instruction.
main_parse(cl) ==
    LET m == main_get_matches(cl) IN
    IF m.exit THEN Exited
    ELSE IF m.sub = "add"
         THEN LET t == value_of(m, "NEW") IN
              IF t = None THEN NoInstruction ELSE Ok(Add(t[1]))
    ELSE IF m.sub = "rm"
         THEN LET v == value_of(m, "NUM") IN
              IF v = None THEN NoInstruction
              ELSE IF parse_usize(v[1]).ok THEN Unit ELSE NoInstruction
    ELSE IF m.sub = "modify"
         THEN LET v == value_of(m, "NUM") IN
              IF v = None THEN NoInstruction
              ELSE LET n == parse_usize(v[1]) IN
                   IF ~n.ok THEN Panic("unwrap on an Err value")
                   ELSE LET t == value_of(m, "NEW") IN
                        IF t = None THEN NoInstruction ELSE Ok(Modify(n.n, t[1]))
    ELSE IF value_of(m, "print") # None THEN Ok(PrintInst)
    ELSE NoInstruction

(***************************************************************************)
(* The state.                                                              *)
(*   owner   the name the invocations give to new                          *)
(*   pc      "idle" before the first invocation; "running" while a store   *)
(*           is alive; "panicked" while a panic of run unwinds; "exited",  *)
(*           "crashed" (after a panic of run or of the interpreter) and    *)
(*           "aborted" (the write in drop failed) once the invocation is   *)
(*           over                                                          *)
(*   store   Option: the ToDoList; after drop, the value it held           *)
(*   file    Option: the content of tasks.json, None while there is none   *)
(*   writes  the writes of tasks.json by the current invocation            *)
(*   last    Option: the last call of run: its instruction, the store      *)
(*           before it and how it ended                                    *)
(*   adds    Option: the texts added since new, while every call of run    *)
(*           was an Add                                                    *)
(*   stdout  Option: what the last call printed                            *)
(*   args    Option: the command line given to an interpreter              *)
(*   parsed  Option: the interpreter run on args and its outcome           *)
(***************************************************************************)
Ended == {"exited", "crashed", "aborted"}

Init ==
    /\ owner \in Names
    /\ pc = "idle"
    /\ store = None
    /\ file = None
    /\ writes = 0
    /\ last = None
    /\ adds = None
    /\ stdout = None
    /\ args = None
    /\ parsed = None

\* ToDoList::new (api.rs 21-26), as tests::test_to_do_list starts
\* (api.rs 74): a new invocation owns a store with no tasks, under the name
\* its caller gives.  Nothing reads tasks.json.
New ==
    /\ pc \in {"idle"} \cup Ended
    /\ pc' = "running"
    /\ store' = Some(ToDoList_new(owner))
    /\ writes' = 0
    /\ last' = None
    /\ adds' = Some(<<>>)
    /\ stdout' = None
    /\ UNCHANGED <<owner, file, args, parsed>>

\* One call of run (api.rs 28-50) on the live store.
Run(inst) ==
    /\ pc = "running"
    /\ inst.kind = "Add" => Len(store[1].tasks) < MaxTasks
    /\ \E overflow_checks \in BOOLEAN :
          LET r == run(store[1], inst, overflow_checks) IN
          /\ pc' = IF r.panic THEN "panicked" ELSE "running"
          /\ store' = Some(r.store)
          /\ last' = Some([inst |-> inst, pre |-> store[1], panic |-> r.panic,
                           err |-> r.err, msg |-> r.msg])
          /\ adds' = IF inst.kind = "Add" /\ adds # None
                     THEN Some(Append(adds[1], inst.text)) ELSE None
          /\ stdout' = IF inst.kind = "Print" THEN Some(PrintOutput(store[1]))
                       ELSE None
    /\ UNCHANGED <<owner, file, writes, args, parsed>>

\* Drop for ToDoList (api.rs 53-58), run when the owner's scope ends and
\* when a panic of run unwinds through it: the store is encoded and written
\* to tasks.json.  fs::write can fail, and the unwrap then panics inside
\* drop; the model takes the failure before the file is touched.
Drop ==
    /\ pc \in {"running", "panicked"}
    /\ \E io_ok \in BOOLEAN :
          IF io_ok
          THEN /\ file' = Some(to_string_pretty(store[1]))
               /\ writes' = writes + 1
               /\ pc' = IF pc = "running" THEN "exited" ELSE "crashed"
          ELSE /\ pc' = "aborted"
               /\ UNCHANGED <<file, writes>>
    /\ UNCHANGED <<owner, store, last, adds, stdout, args, parsed>>

\* main of main.rs (75-78): the command line is interpreted and the outcome
\* printed.  No store is built, tasks.json is neither read nor written.
Main(cl) ==
    /\ pc \in {"idle"} \cup Ended
    /\ LET r == main_parse(cl) IN
       /\ pc' = IF r.kind = "Panic" THEN "crashed" ELSE "exited"
       /\ stdout' = IF r.kind \in {"Panic", "ClapExit"} THEN None
                    ELSE Some([kind |-> r.kind, name |-> <<>>,
                               rows |-> IF r.inst = None THEN <<>>
                                        ELSE <<[index |-> r.inst[1].index,
                                                task |-> r.inst[1].text]>>])
    /\ store' = None
    /\ writes' = 0
    /\ last' = None
    /\ adds' = None
    /\ UNCHANGED <<owner, file, args, parsed>>

Next ==
    \/ New
    \/ \E inst \in Instruction : Run(inst)
    \/ Drop
    \/ \E cl \in MainLines : Main(cl)

Spec == Init /\ [][Next]_vars

(***************************************************************************)
(* The interpreters alone: each command line of CommandLines, given to     *)
(* parse of cli.rs or to cli::parse of main.rs.                            *)
(***************************************************************************)
CliInit ==
    /\ owner \in Names
    /\ pc = "idle"
    /\ store = None
    /\ file = None
    /\ writes = 0
    /\ last = None
    /\ adds = None
    /\ stdout = None
    /\ args \in {Some(cl) : cl \in CommandLines}
    /\ parsed = None

CliParse ==
    /\ parsed = None
    /\ parsed' = Some([by |-> "cli.rs", outcome |-> parse(args[1])])
    /\ UNCHANGED <<args, storeVars>>

MainCliParse ==
    /\ parsed = None
    /\ parsed' = Some([by |-> "main.rs", outcome |-> main_parse(args[1])])
    /\ UNCHANGED <<args, storeVars>>

CliNext == CliParse \/ MainCliParse

CliSpec == CliInit /\ [][CliNext]_vars

(***************************************************************************)
(* The claims.                                                             *)
(***************************************************************************)
\* The last call of run, when there was one.
Call == last[1]

\* The last call was Remove(i) or Modify(i, t) with i = 0 or i > len(tasks).
OutOfRangeCall ==
    /\ last # None
    /\ Call.inst.kind \in {"Remove", "Modify"}
    /\ (Call.inst.index = 0 \/ Call.inst.index > Len(Call.pre.tasks))

\* The last call was of the given kind with 1 <= i <= len(tasks).
ValidCall(kind) ==
    /\ last # None
    /\ Call.inst.kind = kind
    /\ Call.inst.index \in 1 .. Len(Call.pre.tasks)

\* The number of positions of v that hold x.
Count(v, x) == Cardinality({k \in 1 .. Len(v) : v[k] = x})

\* C1: Remove(i) or Modify(i, t) with i = 0 or i > len(tasks) ends with a
\* reportable IndexOutOfRange error, without a panic, and leaves the tasks
\* and the owner name as they were.
C1_OutOfRangeReported ==
    OutOfRangeCall =>
        /\ ~Call.panic
        /\ pc # "panicked"
        /\ Call.err = Some("IndexOutOfRange")
        /\ store = Some(Call.pre)

\* C2: while every call of run since new was an Add, tasks is exactly the
\* sequence of the added texts, in order; and every Add(t), on any store,
\* returns with t appended after the tasks there were, the name unchanged.
C2_AddsInOrder ==
    /\ (pc = "running" /\ adds # None) => store[1].tasks = adds[1]
    /\ (last # None /\ Call.inst.kind = "Add") =>
          /\ ~Call.panic
          /\ store[1].tasks = Call.pre.tasks \o <<Call.inst.text>>
          /\ Len(store[1].tasks) = Len(Call.pre.tasks) + 1
          /\ \A k \in 1 .. Len(Call.pre.tasks) : store[1].tasks[k] = Call.pre.tasks[k]
          /\ store[1].name = Call.pre.name

\* Two Adds of the same, empty, text made a list of two tasks.
C2_Witness ==
    /\ pc = "running"
    /\ adds = Some(<< <<>>, <<>> >>)
    /\ Len(store[1].tasks) = 2

\* C3 as stated: after Remove(i) with a valid i the list is one shorter and
\* the text that was at position i occurs nowhere in it.
C3_RemovedTextAbsent ==
    ValidCall("Remove") =>
        /\ ~Call.panic
        /\ Len(store[1].tasks) = Len(Call.pre.tasks) - 1
        /\ \A k \in 1 .. Len(store[1].tasks) :
              store[1].tasks[k] # Call.pre.tasks[Call.inst.index]

\* C3 amended: after Remove(i) with a valid i the list is one shorter and
\* the text that was at position i occurs exactly once less than before
\* (so nowhere, when it occurred once).
C3_RemovedTextOnceLess ==
    ValidCall("Remove") =>
        LET x == Call.pre.tasks[Call.inst.index] IN
        /\ ~Call.panic
        /\ Len(store[1].tasks) = Len(Call.pre.tasks) - 1
        /\ Count(store[1].tasks, x) = Count(Call.pre.tasks, x) - 1
        /\ Count(Call.pre.tasks, x) = 1 =>
              \A k \in 1 .. Len(store[1].tasks) : store[1].tasks[k] # x

\* A valid Remove of a text that the list held twice.
C3_Witness ==
    /\ ValidCall("Remove")
    /\ Count(Call.pre.tasks, Call.pre.tasks[Call.inst.index]) = 2
    /\ Len(store[1].tasks) = 1

\* C4: after Modify(i, t) with a valid i, position i holds t, the length is
\* unchanged, every other position holds what it held, and so does the name.
C4_ModifyReplacesOne ==
    ValidCall("Modify") =>
        /\ ~Call.panic
        /\ Len(store[1].tasks) = Len(Call.pre.tasks)
        /\ store[1].tasks[Call.inst.index] = Call.inst.text
        /\ \A j \in 1 .. Len(Call.pre.tasks) :
              j # Call.inst.index => store[1].tasks[j] = Call.pre.tasks[j]
        /\ store[1].name = Call.pre.name

\* Modify(1, t) on a list of two tasks, t another text than the first held.
C4_Witness ==
    /\ ValidCall("Modify")
    /\ Call.inst.index = 1
    /\ Len(Call.pre.tasks) = 2
    /\ Call.inst.text # Call.pre.tasks[1]
    /\ store[1].tasks[2] = Call.pre.tasks[2]

\* C5: when an invocation is over, by normal completion or by a panic of
\* run or of the interpreter, it has written tasks.json exactly once and
\* the file holds the encoding of the final in-memory store.
C5_PersistedOnEveryExit ==
    pc \in {"exited", "crashed"} =>
        /\ writes = 1
        /\ store # None
        /\ file = Some(to_string_pretty(store[1]))

\* C6: an invocation starts with the store the previous one persisted, and
\* with no tasks when there is no file.
C6_StartsFromSnapshot ==
    (pc = "running" /\ last = None) =>
        IF file = None THEN store[1].tasks = <<>>
        ELSE /\ from_str(file[1]).ok
             /\ store[1] = from_str(file[1]).val

\* C7: decoding the encoding of a store gives the store back: the same
\* tasks in the same order, the same owner name.
C7_RoundTrip ==
    store # None =>
        LET r == from_str(to_string_pretty(store[1])) IN
        /\ r.ok
        /\ r.val.tasks = store[1].tasks
        /\ r.val.name = store[1].name

\* A live store of two tasks, one of them holding a quote and a backslash,
\* under the owner name that holds a backslash.
C7_Witness ==
    /\ pc = "running"
    /\ Len(store[1].tasks) = 2
    /\ \E k \in 1 .. 2 : store[1].tasks[k] = <<"a", "\"", "\\">>
    /\ store[1].name = <<"\\">>
    /\ from_str(to_string_pretty(store[1])).ok

\* A well-formed command line and the instruction it stands for.
IsPositive(opt) == opt # None /\ parse_usize(opt[1]).ok /\ parse_usize(opt[1]).n > 0

WellFormed(cl) ==
    \/ cl.cmd = "print" /\ cl.num = None /\ cl.new = None
    \/ cl.cmd = "add" /\ cl.num = None /\ cl.new # None
    \/ cl.cmd = "rm" /\ IsPositive(cl.num) /\ cl.new = None
    \/ cl.cmd = "modify" /\ IsPositive(cl.num) /\ cl.new # None

Meaning(cl) ==
    CASE cl.cmd = "print" -> PrintInst
      [] cl.cmd = "add" -> Add(cl.new[1])
      [] cl.cmd = "rm" -> Remove(parse_usize(cl.num[1]).n)
      [] cl.cmd = "modify" -> Modify(parse_usize(cl.num[1]).n, cl.new[1])

\* C8: the interpreter maps each well-formed command line to exactly the
\* corresponding instruction.
C8_WellFormedParsed ==
    (parsed # None /\ WellFormed(args[1])) =>
        /\ parsed[1].outcome.kind = "Ok"
        /\ parsed[1].outcome.inst = Some(Meaning(args[1]))

\* C9: for rm and modify, an index that is no positive integer makes the
\* interpreter return a reportable parse error: no panic, no instruction.
C9_BadIndexRefused ==
    (/\ parsed # None
     /\ args[1].cmd \in {"rm", "modify"}
     /\ args[1].num # None
     /\ ~IsPositive(args[1].num)
     /\ (args[1].cmd = "modify") = (args[1].new # None)) =>
        /\ parsed[1].outcome.kind \in {"Err", "None", "ClapExit"}
        /\ parsed[1].outcome.inst = None

\* C10: Remove(i) with a valid i deletes exactly position i: the earlier
\* positions keep their texts, each later one moves down by one, the name
\* is unchanged, and Print numbers the tasks 1 .. len - 1.
C10_RemoveDeletesOne ==
    ValidCall("Remove") =>
        LET i == Call.inst.index
            n == Len(Call.pre.tasks)
        IN /\ ~Call.panic
           /\ Len(store[1].tasks) = n - 1
           /\ \A j \in 1 .. (i - 1) : store[1].tasks[j] = Call.pre.tasks[j]
           /\ \A j \in (i + 1) .. n : store[1].tasks[j - 1] = Call.pre.tasks[j]
           /\ store[1].name = Call.pre.name
           /\ \A k \in 1 .. (n - 1) :
                 /\ PrintRows(store[1].tasks)[k].index = k
                 /\ PrintRows(store[1].tasks)[k].task = store[1].tasks[k]
           /\ Len(PrintRows(store[1].tasks)) = n - 1

\* Remove(2) on a list of three tasks, the second unlike the third: the
\* first stays first and the third is now the second.
C10_Witness ==
    /\ ValidCall("Remove")
    /\ Call.inst.index = 2
    /\ Len(Call.pre.tasks) = 3
    /\ Call.pre.tasks[2] # Call.pre.tasks[3]
    /\ store[1].tasks = <<Call.pre.tasks[1], Call.pre.tasks[3]>>

====
